---- MODULE Spec2Model ----
\* LSB steganographic codec of src/src/byte.rs: encode_raw / decode_raw (bit
\* packer) and encode / decode (length-framed codec), as a state machine over
\* one carrier buffer.
EXTENDS Integers, Sequences, FiniteSets, TLC

\* ---------------------------------------------------------------- bounds
\* Longest payload drawn in Init.
MaxLen == 2
\* Longest carrier drawn in Init, counted in slot groups of 8/step bytes.
MaxSlots == 10
\* Largest `size` argument handed to decode_raw by the DecodeRaw action.
MaxCount == 2

\* ------------------------------------------------------ program constants
\* u8::BITS
Bits == 8
\* size_of::<usize>() on a 64-bit target
WordSize == 8
\* usize (64 bits) is held as UsizeLimbs limbs of LimbBits bits, most
\* significant first, so that the wrapping product size * bpb is exact.
LimbBits == 2 * Bits
UsizeLimbs == (WordSize * Bits) \div LimbBits
LimbBase == 2 ^ LimbBits
ByteBase == 2 ^ Bits

\* Step sizes accepted by debug_assert_step_size!: 0 < step < 8, 8 % step = 0.
Steps == {s \in 1..(Bits - 1) : Bits % s = 0}

\* Messages whose prefixes are the payloads drawn in Init: "Hi!?" (the
\* message of test::encode, continued) and one with all-ones and zero bytes.
Messages == {<<72, 105, 33, 63>>, <<255, 0, 165, 90>>}

\* ------------------------------------------------------------ usize model
RECURSIVE ToLimbs(_, _)
ToLimbs(n, k) ==
    IF k = 0 THEN <<>> ELSE Append(ToLimbs(n \div LimbBase, k - 1), n % LimbBase)

\* A small natural number as a usize.
Usize(n) == ToLimbs(n, UsizeLimbs)

\* TRUE when the usize fits the least significant limb.
UFits(u) == \A i \in 1..(UsizeLimbs - 1) : u[i] = 0

\* The value of a usize that fits.
UNat(u) == u[UsizeLimbs]

\* u > n for a small natural n.
UGtNat(u, n) == ~UFits(u) \/ UNat(u) > n

\* u = n for a small natural n.
UEqNat(u, n) == UFits(u) /\ UNat(u) = n

\* size * bpb on usize: the wrapped product and whether it overflowed.
RECURSIVE UMulFrom(_, _, _, _)
UMulFrom(u, k, i, carry) ==
    IF i = 0 THEN [val |-> u, overflow |-> carry # 0]
    ELSE LET p == u[i] * k + carry
         IN  UMulFrom([u EXCEPT ![i] = p % LimbBase], k, i - 1, p \div LimbBase)

UMul(u, k) == UMulFrom(u, k, UsizeLimbs, 0)

\* usize::to_be_bytes: each limb gives its high byte, then its low byte.
RECURSIVE LimbsToBytes(_, _)
LimbsToBytes(u, i) ==
    IF i > Len(u) THEN <<>>
    ELSE <<u[i] \div ByteBase, u[i] % ByteBase>> \o LimbsToBytes(u, i + 1)

to_be_bytes(u) == LimbsToBytes(u, 1)

\* from_be_bytes reading the bytes least significant first.
from_le_bytes(bytes) ==
    [i \in 1..UsizeLimbs |->
        bytes[2 * (UsizeLimbs - i) + 2] * ByteBase + bytes[2 * (UsizeLimbs - i) + 1]]

\* usize::from_be_bytes: the first byte is the most significant.
from_be_bytes(bytes) ==
    [i \in 1..UsizeLimbs |-> bytes[2 * i - 1] * ByteBase + bytes[2 * i]]

\* --------------------------------------------------------------- results
NoUsize == Usize(0)

Ok(rem, out)  == [kind |-> "ok", rem |-> rem, out |-> out,
                  actual |-> NoUsize, required |-> NoUsize, why |-> ""]

\* Error::BufferTooSmall { actual, required }
BufferTooSmall(actual, required) ==
    [kind |-> "err", rem |-> <<>>, out |-> <<>>,
     actual |-> actual, required |-> required, why |-> "BufferTooSmall"]

\* The call does not return: a failed debug assertion, an arithmetic overflow
\* check, or a slice index out of range.
Panic(why) == [kind |-> "panic", rem |-> <<>>, out |-> <<>>,
               actual |-> NoUsize, required |-> NoUsize, why |-> why]

NoCall == [kind |-> "none", rem |-> <<>>, out |-> <<>>,
           actual |-> NoUsize, required |-> NoUsize, why |-> ""]

\* &buffer[from..] with a 0-based start; the caller checks from <= len.
SliceFrom(buffer, from) == SubSeq(buffer, from + 1, Len(buffer))

\* ---------------------------------------------------------- bit packing
bytes_per_byte(step) == Bits \div step

\* (x & (1 << i)) >> i
Bit(x, i) == (x \div (2 ^ i)) % 2

\* The loop without clearing the slot's old bit: old = *slot.
RECURSIVE WriteBitsKeepOld(_, _, _, _, _)
WriteBitsKeepOld(slot, byte_in, bit_read, bit_write, step) ==
    IF bit_write >= step THEN slot
    ELSE LET insert == Bit(byte_in, bit_read)
             had    == Bit(slot, bit_write)
             merged == IF had = 1 THEN slot ELSE slot + insert * (2 ^ bit_write)
         IN  WriteBitsKeepOld(merged, byte_in, bit_read + 1, bit_write + 1, step)

\* The loop inserting each bit at bit_read instead of bit_write.
RECURSIVE WriteBitsAtReadIndex(_, _, _, _, _)
WriteBitsAtReadIndex(slot, byte_in, bit_read, bit_write, step) ==
    IF bit_write >= step THEN slot
    ELSE LET insert == Bit(byte_in, bit_read)
             old    == slot - Bit(slot, bit_write) * (2 ^ bit_write)
             merged == IF insert = 1 /\ Bit(old, bit_read) = 0
                       THEN old + 2 ^ bit_read ELSE old
         IN  WriteBitsAtReadIndex(merged, byte_in, bit_read + 1, bit_write + 1, step)

\* The `for bit_write in 0..step` loop of encode_raw_unsafe on one slot.
RECURSIVE WriteBitsLoop(_, _, _, _, _)
WriteBitsLoop(slot, byte_in, bit_read, bit_write, step) ==
    IF bit_write >= step THEN slot
    ELSE LET insert == Bit(byte_in, bit_read)
             old    == slot - Bit(slot, bit_write) * (2 ^ bit_write)
         IN  WriteBitsLoop(old + insert * (2 ^ bit_write), byte_in,
                           bit_read + 1, bit_write + 1, step)

WriteBits(slot, byte_in, bit_read, bit_write, step) ==
    WriteBitsLoop(slot, byte_in, bit_read, bit_write, step)

\* The `for slot in (&mut it).take(space)` loop: `it` is the 1-based index of
\* the iterator's next slot, `taken` counts the slots of this take().
RECURSIVE WriteSlots(_, _, _, _, _, _, _)
WriteSlots(buffer, it, taken, byte_in, bit_read, space, step) ==
    IF taken >= space \/ it > Len(buffer) THEN [buffer |-> buffer, it |-> it]
    ELSE WriteSlots([buffer EXCEPT ![it] = WriteBits(@, byte_in, bit_read, 0, step)],
                    it + 1, taken + 1, byte_in, bit_read + step, space, step)

\* The `for byte_in in data` loop.
RECURSIVE WriteData(_, _, _, _, _, _)
WriteData(buffer, it, data, k, space, step) ==
    IF k > Len(data) THEN buffer
    ELSE LET r == WriteSlots(buffer, it, 0, data[k], 0, space, step)
         IN  WriteData(r.buffer, r.it, data, k + 1, space, step)

\* encode_raw_unsafe: the buffer after the writes and the returned remainder.
encode_raw_unsafe(buffer, data, step) ==
    LET space   == bytes_per_byte(step)
        written == WriteData(buffer, 1, data, 1, space, step)
    IN  IF Len(data) * space > Len(buffer)
        THEN [buffer |-> written, ret |-> Panic("range start index out of range")]
        ELSE [buffer |-> written, ret |-> Ok(SliceFrom(written, Len(data) * space), <<>>)]

\* decode_byte returning `current` without reversing it.
reverse_bits_none(x) == x

\* u8::reverse_bits
reverse_bits(x) ==
    LET RECURSIVE Rev(_, _)
        Rev(i, acc) == IF i = Bits THEN acc
                       ELSE Rev(i + 1, acc + Bit(x, i) * (2 ^ (Bits - 1 - i)))
    IN  Rev(0, 0)

\* The `for bit_read in 0..step` loop of decode_byte on one slot.
RECURSIVE ReadBits(_, _, _, _)
ReadBits(acc, slot, bit_read, step) ==
    IF bit_read >= step THEN acc
    ELSE ReadBits([current |-> ((acc.current * 2) % ByteBase) + Bit(slot, bit_read),
                   bit     |-> acc.bit + 1],
                  slot, bit_read + 1, step)

RECURSIVE ReadSlots(_, _, _, _)
ReadSlots(acc, buffer, i, step) ==
    IF i > Len(buffer) THEN acc
    ELSE ReadSlots(ReadBits(acc, buffer[i], 0, step), buffer, i + 1, step)

\* decode_byte: Some(val) or None.
decode_byte(buffer, step) ==
    LET acc == ReadSlots([current |-> 0, bit |-> 0], buffer, 1, step)
    IN  [some |-> acc.bit = Bits, val |-> reverse_bits(acc.current)]

\* encode_raw checking the carrier against data.len() * step.
encode_raw_required_step(buffer, data, step) ==
    IF Len(buffer) < Len(data) * step
    THEN [buffer |-> buffer,
          ret |-> BufferTooSmall(Usize(Len(buffer)), Usize(Len(data) * step))]
    ELSE encode_raw_unsafe(buffer, data, step)

\* encode_raw: the capacity check, then encode_raw_unsafe.
encode_raw(buffer, data, step) ==
    IF Len(buffer) < Len(data) * bytes_per_byte(step)
    THEN [buffer |-> buffer,
          ret |-> BufferTooSmall(Usize(Len(buffer)), Usize(Len(data) * step))]
    ELSE encode_raw_unsafe(buffer, data, step)

\* The `for index in (0..buffer.len()).step_by(bpb).take(size)` loop of
\* decode_raw; `index` is 0-based, `taken` counts the items take() has yielded.
RECURSIVE DecodeLoop(_, _, _, _, _, _, _)
DecodeLoop(buffer, index, taken, size, bpb, step, out) ==
    IF index >= Len(buffer) \/ ~UGtNat(size, taken)
    THEN [panic |-> FALSE, out |-> out]
    ELSE IF index + bpb > Len(buffer)
    THEN [panic |-> TRUE, out |-> out]
    ELSE LET byte == decode_byte(SubSeq(buffer, index + 1, index + bpb), step)
         IN  IF byte.some
             THEN DecodeLoop(buffer, index + bpb, taken + 1, size, bpb, step,
                             Append(out, byte.val))
             ELSE [panic |-> FALSE, out |-> out]

\* decode_raw(buffer, size, step); `size` is a usize, `debug` tells whether
\* debug assertions and overflow checks are compiled in.
decode_raw(buffer, size, step, debug) ==
    LET bpb  == bytes_per_byte(step)
        prod == UMul(size, bpb)
        loop == DecodeLoop(buffer, 0, 0, size, bpb, step, <<>>)
    IN  IF debug /\ prod.overflow
        THEN Panic("attempt to multiply with overflow")
        ELSE IF debug /\ UGtNat(prod.val, Len(buffer))
        THEN Panic("Buffer is too small to hold the requested amount of data")
        ELSE IF loop.panic
        THEN Panic("range end index out of range")
        ELSE IF UGtNat(prod.val, Len(buffer))
        THEN Panic("range start index out of range")
        ELSE Ok(SliceFrom(buffer, UNat(prod.val)), loop.out)

\* encode checking the capacity for length field and payload before writing.
encode_checked_upfront(buffer, data, step) ==
    LET size  == to_be_bytes(Usize(Len(data)))
        first == encode_raw(buffer, size, step)
    IN  IF Len(buffer) < (Len(size) + Len(data)) * bytes_per_byte(step)
        THEN [buffer |-> buffer,
              ret |-> BufferTooSmall(Usize(Len(buffer)),
                                     Usize((Len(size) + Len(data)) * step))]
        ELSE LET head   == Len(buffer) - Len(first.ret.rem)
                 second == encode_raw(first.ret.rem, data, step)
             IN  [buffer |-> SubSeq(first.buffer, 1, head) \o second.buffer,
                  ret    |-> second.ret]

\* encode: the length as big-endian bytes, then the payload, each by encode_raw.
encode(buffer, data, step) ==
    LET size  == to_be_bytes(Usize(Len(data)))
        first == encode_raw(buffer, size, step)
    IN  IF first.ret.kind # "ok" THEN first
        ELSE LET head   == Len(buffer) - Len(first.ret.rem)
                 second == encode_raw(first.ret.rem, data, step)
             IN  [buffer |-> SubSeq(first.buffer, 1, head) \o second.buffer,
                  ret    |-> second.ret]

\* decode: the length field, then that many payload bytes.
decode(buffer, step, debug) ==
    LET first == decode_raw(buffer, Usize(WordSize), step, debug)
    IN  IF first.kind = "panic" THEN first
        ELSE IF Len(first.out) # WordSize
        THEN BufferTooSmall(Usize(Len(first.out)), Usize(WordSize))
        ELSE LET size   == from_be_bytes(first.out)
                 second == decode_raw(first.rem, size, step, debug)
             IN  IF second.kind = "panic" THEN second
                 ELSE IF ~UEqNat(size, Len(second.out))
                 THEN BufferTooSmall(Usize(Len(first.rem)), size)
                 ELSE Ok(<<>>, second.out)

\* ------------------------------------------------------------ state machine
VARIABLES
    step,     \* the step size every call of this run uses
    debug,    \* TRUE in a build with debug assertions and overflow checks
    data,     \* the payload
    buffer,   \* the carrier
    before,   \* the carrier as it was when the last call began
    op,       \* the last call: "none", "encode_raw", "decode_raw", "encode", "decode"
    size,     \* the `size` argument of the last decode_raw call
    ret,      \* what the last call returned
    holds     \* what the carrier holds from its start: "none", "raw" or "framed"

vars == <<step, debug, data, buffer, before, op, size, ret, holds>>

\* Carrier fills drawn in Init: all zero (as in the tests); a pattern whose
\* bytes differ in their high and in their low bits; and zeros but for the one
\* low bit that is the top bit of a length field (the length 2^63).
Fill(kind, i, s) ==
    CASE kind = 0 -> 0
      [] kind = 1 -> (165 + 91 * (i - 1)) % ByteBase
      [] OTHER    -> IF i = bytes_per_byte(s) THEN 2 ^ (s - 1) ELSE 0

FillKinds == {0, 1, 2}

Payloads == {SubSeq(m, 1, n) : m \in Messages, n \in 0..MaxLen}

\* Carrier lengths drawn in Init: whole slot groups, one byte more, and one
\* byte short of the next group.
CarrierLens(s) ==
    {g * bytes_per_byte(s) + e :
        g \in 0..MaxSlots, e \in {0, 1, bytes_per_byte(s) - 1}}

Carriers(s) ==
    {[i \in 1..n |-> Fill(kind, i, s)] : n \in CarrierLens(s), kind \in FillKinds}

Init ==
    /\ step \in Steps
    /\ debug \in BOOLEAN
    /\ data \in Payloads
    /\ buffer \in Carriers(step)
    /\ before = buffer
    /\ op = "none"
    /\ size = 0
    /\ ret = NoCall
    /\ holds = "none"

\* What the carrier holds after an encoding call that returned `r`.
HoldsAfter(kind, r, buf) ==
    IF r.kind = "ok" THEN kind
    ELSE IF buf = buffer THEN holds
    ELSE "none"

\* A caller is done once it has decoded (main.rs decodes last, and so does
\* test::encode_decode); a decoding call leaves the carrier as it was.
Running == op \notin {"decode_raw", "decode"}

EncodeRaw ==
    LET r == encode_raw(buffer, data, step)
    IN  /\ Running
        /\ op' = "encode_raw"
        /\ before' = buffer
        /\ buffer' = r.buffer
        /\ ret' = r.ret
        /\ holds' = HoldsAfter("raw", r.ret, r.buffer)
        /\ UNCHANGED <<step, debug, data, size>>

DecodeRaw ==
    \E count \in 0..MaxCount :
        /\ Running
        /\ op' = "decode_raw"
        /\ size' = count
        /\ before' = buffer
        /\ ret' = decode_raw(buffer, Usize(count), step, debug)
        /\ UNCHANGED <<step, debug, data, buffer, holds>>

Encode ==
    LET r == encode(buffer, data, step)
    IN  /\ Running
        /\ op' = "encode"
        /\ before' = buffer
        /\ buffer' = r.buffer
        /\ ret' = r.ret
        /\ holds' = HoldsAfter("framed", r.ret, r.buffer)
        /\ UNCHANGED <<step, debug, data, size>>

Decode ==
    /\ Running
    /\ op' = "decode"
    /\ before' = buffer
    /\ ret' = decode(buffer, step, debug)
    /\ UNCHANGED <<step, debug, data, buffer, size, holds>>

Next == EncodeRaw \/ DecodeRaw \/ Encode \/ Decode

Spec == Init /\ [][Next]_vars

\* ------------------------------------------------------------------ claims
\* 8/step for the run's step, and the bytes a slot keeps above its low bits.
Bpb == bytes_per_byte(step)
LowBits(x) == x % (2 ^ step)
HighBits(x) == x \div (2 ^ step)

\* The carrier index (1-based) of slot j (0-based) of payload byte k (1-based).
SlotOf(k, j) == (k - 1) * Bpb + j + 1

\* The low bits slot j carries for the byte value b: (b >> (j*step)) mod 2^step.
Group(b, j) == (b \div (2 ^ (j * step))) % (2 ^ step)

\* The big-endian length field of a payload shorter than 256 bytes.
LengthField(n) == [k \in 1..WordSize |-> IF k = WordSize THEN n ELSE 0]

\* C1: after encode_raw has succeeded with payload `data`, decode_raw on the
\* same carrier with size = Len(data) returns exactly `data`, whatever the
\* carrier held before and however much longer than Len(data)*(8/step) it is.
C1_RawRoundTrip ==
    (op = "decode_raw" /\ holds = "raw" /\ size = Len(data))
        => (ret.kind = "ok" /\ ret.out = data)

C1_Witness ==
    /\ op = "decode_raw" /\ holds = "raw" /\ size = Len(data)
    /\ Len(data) = 2
    /\ Len(buffer) > Len(data) * Bpb
    /\ Len(buffer) % Bpb # 0
    /\ HighBits(buffer[1]) # 0
    /\ ret.out = data

\* C2: after encode has succeeded with payload `data`, decode on the same
\* carrier returns Ok with exactly `data`.
C2_FramedRoundTrip ==
    (op = "decode" /\ holds = "framed")
        => (ret.kind = "ok" /\ ret.out = data)

C2_Witness ==
    /\ op = "decode" /\ holds = "framed"
    /\ Len(data) = 2
    /\ Len(buffer) >= (Len(data) + WordSize) * Bpb
    /\ HighBits(buffer[1]) # 0
    /\ ret.kind = "ok" /\ ret.out = data

\* C3: a successful encode_raw leaves the high 8-step bits of every consumed
\* carrier byte (indices 0 .. L*(8/step)-1) as they were before the call.
C3_HighBitsKept ==
    (op = "encode_raw" /\ ret.kind = "ok")
        => \A i \in 1..(Len(data) * Bpb) : HighBits(buffer[i]) = HighBits(before[i])

C3_Witness ==
    /\ op = "encode_raw" /\ ret.kind = "ok"
    /\ \E i \in 1..(Len(data) * Bpb) :
          /\ buffer[i] # before[i]
          /\ HighBits(before[i]) # 0
          /\ HighBits(buffer[i]) = HighBits(before[i])

\* C4 (as claimed): decode_raw with size >= 1 on a carrier shorter than
\* size*(8/step) returns normally, with fewer than `size` bytes and an empty
\* remainder.
C4_TruncatedRawDecode ==
    (op = "decode_raw" /\ size >= 1 /\ Len(before) < size * Bpb)
        => (ret.kind = "ok" /\ Len(ret.out) < size /\ ret.rem = <<>>)

\* C5 (as claimed): decode on a carrier shorter than word_size*(8/step)
\* returns BufferTooSmall with the recovered byte count as actual and
\* word_size as required.
C5_ShortLengthField ==
    (op = "decode" /\ Len(before) < WordSize * Bpb)
        => /\ ret.kind = "err"
           /\ ret.actual = Usize(Len(before) \div Bpb)
           /\ ret.required = Usize(WordSize)

\* The length n a carrier's complete length field encodes, and whether fewer
\* than n*(8/step) carrier bytes follow the field.
FieldOf(carrier) ==
    from_be_bytes(decode_raw(carrier, Usize(WordSize), step, FALSE).out)

PayloadCutShort(carrier) ==
    LET need == UMul(FieldOf(carrier), Bpb)
    IN  need.overflow \/ UGtNat(need.val, Len(carrier) - WordSize * Bpb)

\* C6 (as claimed): decode on a carrier with a complete length field n but
\* fewer than n*(8/step) bytes after it returns a BufferTooSmall that reports
\* n as required and the number of payload bytes recovered as actual.
C6_ExhaustedPayload ==
    (op = "decode" /\ Len(before) >= WordSize * Bpb /\ PayloadCutShort(before))
        => /\ ret.kind = "err"
           /\ ret.required = FieldOf(before)
           /\ ret.actual = Usize((Len(before) - WordSize * Bpb) \div Bpb)

\* C7: encode_raw returns BufferTooSmall exactly when the carrier is shorter
\* than L*(8/step), and the remainder otherwise; so it succeeds at length
\* L*(8/step) and fails at L*(8/step) - 1.
C7_CapacityBoundary ==
    op = "encode_raw"
        => /\ ret.kind \in {"ok", "err"}
           /\ ret.kind = "err" <=> Len(before) < Len(data) * Bpb
           /\ ret.kind = "ok" => ret.rem = SliceFrom(buffer, Len(data) * Bpb)

C7_Witness ==
    /\ op = "encode_raw"
    /\ Len(data) >= 1
    /\ Len(before) = Len(data) * Bpb - 1
    /\ ret.kind = "err"

\* C8 (as claimed): a failing encode_raw reports actual = carrier.length and
\* required = payload.length*(8/step).
C8_CapacityErrorContents ==
    (op = "encode_raw" /\ ret.kind = "err")
        => /\ ret.actual = Usize(Len(before))
           /\ ret.required = Usize(Len(data) * Bpb)

\* C9: after a successful encode_raw the low step bits of carrier byte
\* k*(8/step)+j hold (payload[k] >> (j*step)) mod 2^step, and decode_byte on
\* the group of payload byte k returns payload[k].
C9_BitLayout ==
    (op = "encode_raw" /\ ret.kind = "ok")
        => \A k \in 1..Len(data) :
              /\ \A j \in 0..(Bpb - 1) :
                    LowBits(buffer[SlotOf(k, j)]) = Group(data[k], j)
              /\ decode_byte(SubSeq(buffer, SlotOf(k, 0), SlotOf(k, Bpb - 1)), step)
                    = [some |-> TRUE, val |-> data[k]]

C9_Witness ==
    /\ op = "encode_raw" /\ ret.kind = "ok"
    /\ step = 4
    /\ data = <<72, 105>>
    /\ before = <<0, 0, 0, 0>>
    /\ buffer = <<8, 4, 9, 6>>

\* C10: when encode returns an error, (a) a carrier shorter than
\* word_size*(8/step) is unchanged, and (b) a longer one is shorter than
\* (L + word_size)*(8/step), holds the big-endian payload length in the low
\* bits of its first word_size*(8/step) bytes, and is unchanged after them.
C10_FramedPartialWrite ==
    (op = "encode" /\ ret.kind = "err")
        => IF Len(before) < WordSize * Bpb
           THEN buffer = before
           ELSE /\ Len(before) < (Len(data) + WordSize) * Bpb
                /\ Len(buffer) = Len(before)
                /\ \A k \in 1..WordSize : \A j \in 0..(Bpb - 1) :
                      /\ LowBits(buffer[SlotOf(k, j)])
                            = Group(LengthField(Len(data))[k], j)
                      /\ HighBits(buffer[SlotOf(k, j)]) = HighBits(before[SlotOf(k, j)])
                /\ \A i \in (WordSize * Bpb + 1)..Len(before) : buffer[i] = before[i]

C10_Witness ==
    /\ op = "encode" /\ ret.kind = "err"
    /\ Len(before) > WordSize * Bpb
    /\ buffer # before
    /\ \A i \in (WordSize * Bpb + 1)..Len(before) : buffer[i] = before[i]

====
